---- MODULE Spec2Model ----
(***************************************************************************)
(* Model of super_gradients/training/pipelines/pipelines.py:               *)
(* eval_mode, Pipeline (predict, batch_predict, predict_video) and         *)
(* DetectionPipeline (_decode_model_output, _instantiate_results).         *)
(*                                                                         *)
(* One call of predict runs in a slot of `call`, one step per stage of     *)
(* lines 103-124; the collaborators (processing step, model, decoder) are  *)
(* the environment: each of their calls either returns or raises.          *)
(***************************************************************************)
EXTENDS Integers, Sequences, FiniteSets, TLC

MaxN == 3        \* longest image stream / number of video frames
MaxB == 2        \* largest batch_size (and longest batch given to predict)
MaxRows == 1     \* most detections the decoder returns for one image
MaxPathLen == 4  \* longest video path, in characters
MaxConcurrentBatch == 1   \* longest batch given to predict when two threads call it

VARIABLES
    pipeline,       \* the constructed DetectionPipeline (tag "None" before construction)
    model,          \* the SgModule: [training, device]
    call,           \* thread -> frame of its predict call (locals, position, outcome)
    drv,            \* the batch_predict generator and the predict_video frame around it
    initial_mode,   \* history: model.training when the pipeline was constructed
    scope_failed,   \* history: some predict call raised inside the eval_mode scope
    overlapped      \* history: a predict call was started while another was in flight

vars == <<pipeline, model, call, drv, initial_mode, scope_failed, overlapped>>

Min(a, b) == IF a < b THEN a ELSE b

NoneVal == [tag |-> "None"]

Devices == {"cpu", "cuda"}

Threads == {1}

-----------------------------------------------------------------------------
(* Collaborators, by their interface.                                      *)

\* Processing.preprocess_image(image) -> (model-ready image, metadata)
preprocess_image(image) ==
    [image    |-> [tag |-> "preprocessed", of |-> image],
     metadata |-> [tag |-> "metadata", of |-> image]]

\* An image object is [ref, data]: ref i > 0 is the object at position i of the
\* caller's list, ref 0 an object the caller does not hold.
\* An argument of preprocess_image that is the caller's own object instead of a copy
image_alias(image) == image

\* line 108, image.copy(): a new object with the same data
image_copy(image) == [ref |-> 0, data |-> image.data]

\* Processing.preprocess_image may work in place on the array it is given. The
\* model takes the case that it always does: the data of the object it was
\* handed is overwritten (0 is no frame), which the caller sees when the object
\* is one of its own.
InPlace(images, image) ==
    IF image.ref = 0 THEN images ELSE [images EXCEPT ![image.ref] = 0]

\* Processing.postprocess_predictions(predictions, metadata) -> remapped prediction
postprocess_predictions(prediction, metadata) ==
    [tag |-> "postprocessed", prediction |-> prediction, metadata |-> metadata]

\* torch.Tensor(np.array(preprocessed_images)): one row per preprocessed image
Tensor(preprocessed_images) ==
    [i \in 1..Len(preprocessed_images) |->
        [tag |-> "input", of |-> preprocessed_images[i].of]]

\* self.model(torch_inputs): one raw output per row of the batch tensor
ModelForward(torch_inputs) ==
    [i \in 1..Len(torch_inputs) |-> [tag |-> "raw", of |-> torch_inputs[i].of]]

\* What the post prediction callback may return for a batch: per entry None or
\* an (r x 6) tensor of the detections kept for that image.  A callback that
\* honours its interface ("one_per_image") returns one entry per image of the
\* batch; nothing in the pipeline holds a callback to that, and one that does
\* not ("any_length") may return fewer.
CallbackOutputs(post_prediction_callback, model_output) ==
    LET n == Len(model_output)
        lengths == IF post_prediction_callback = "one_per_image" THEN {n} ELSE 0..n
    IN  UNION { { [i \in 1..k |->
                     IF f[i] = -1 THEN NoneVal
                     ELSE [tag |-> "tensor", rows |-> f[i], cols |-> 6, of |-> model_output[i].of]]
                  : f \in [1..k -> {-1} \cup (0..MaxRows)] }
                : k \in lengths }

\* torch.zeros((0, 6), dtype=torch.float32)
ZeroRows == [tag |-> "tensor", rows |-> 0, cols |-> 6, of |-> 0]

\* DetectionPrediction(bboxes=prediction[:, :4], confidence=prediction[:, 4],
\*                     labels=prediction[:, 5], bbox_format="xyxy", image_shape=image.shape)
DetectionPrediction(prediction, image) ==
    [tag         |-> "DetectionPrediction",
     bboxes      |-> [rows |-> prediction.rows, cols |-> 4],
     confidence  |-> prediction.rows,
     labels      |-> prediction.rows,
     bbox_format |-> "xyxy",
     image_shape |-> image,
     of          |-> prediction.of]

\* DetectionPipeline._decode_model_output, the loop over zip(post_nms_predictions, model_input).
\* Line 178 evaluates the conditional expression and discards its value, so a
\* None entry reaches prediction.detach() on line 179, which raises AttributeError.
RECURSIVE DecodeLoop(_, _, _, _)
DecodeLoop(post_nms_predictions, model_input, i, predictions) ==
    IF i > Min(Len(post_nms_predictions), Len(model_input))
    THEN [ok |-> TRUE, predictions |-> predictions, index |-> 0]
    ELSE LET prediction == post_nms_predictions[i]
             discarded == IF prediction.tag # "None" THEN prediction ELSE ZeroRows
         IN  IF prediction.tag = "None"
             THEN [ok |-> FALSE, predictions |-> predictions, index |-> i]
             ELSE DecodeLoop(post_nms_predictions, model_input, i + 1,
                             Append(predictions, DetectionPrediction(prediction, model_input[i])))

\* Results.results: one Result per (image, prediction) pair, in order
Result(image, prediction, class_names) ==
    [tag |-> "Result", image |-> image, prediction |-> prediction, class_names |-> class_names]

\* _instantiate_results given only the images that have a prediction
_instantiate_results_paired(images, predictions) ==
    [tag         |-> "Results",
     images      |-> SubSeq(images, 1, Min(Len(images), Len(predictions))),
     predictions |-> predictions,
     class_names |-> pipeline.class_names,
     results     |-> [i \in 1..Min(Len(images), Len(predictions)) |->
                         Result(images[i], predictions[i], pipeline.class_names)]]

\* DetectionPipeline._instantiate_results -> DetectionResults(images, predictions, class_names)
_instantiate_results(images, predictions) ==
    [tag         |-> "Results",
     images      |-> images,
     predictions |-> predictions,
     class_names |-> pipeline.class_names,
     results     |-> [i \in 1..Min(Len(images), Len(predictions)) |->
                         Result(images[i], predictions[i], pipeline.class_names)]]

-----------------------------------------------------------------------------
(* Frames of predict.                                                      *)

IdleCall ==
    [pc                   |-> "idle",
     owner                |-> "none",
     images               |-> <<>>,
     images_at_call       |-> <<>>,
     preprocessed_images  |-> <<>>,
     processing_metadatas |-> <<>>,
     starting_mode        |-> FALSE,
     prev_grad            |-> TRUE,
     grad_enabled         |-> TRUE,
     torch_inputs_device  |-> "unset",
     model_output         |-> <<>>,
     post_nms_predictions |-> <<>>,
     predictions          |-> <<>>,
     postprocessed_predictions |-> <<>>,
     result               |-> NoneVal,
     err                  |-> NoneVal,
     trace                |-> <<>>]

\* A collaborator call as the frame records it, with the model's state at that moment.
Ev(name, i, p) ==
    [ev |-> name, i |-> i, training |-> model.training,
     grad |-> call[p].grad_enabled, device |-> model.device]

Error(stage, i, kind) == [tag |-> "Error", stage |-> stage, i |-> i, kind |-> kind]

\* An exception leaves predict from outside the eval_mode scope.
Raise(c, err) == [c EXCEPT !.pc = "raised", !.err = err]

\* An exception leaves predict through the eval_mode scope: torch.no_grad() is a
\* real context manager and restores the grad mode; eval_mode has no try/finally
\* around its yield, so line 32 is not executed.
RaiseInScope(c, err) ==
    [c EXCEPT !.pc = "raised", !.err = err, !.grad_enabled = c.prev_grad]

-----------------------------------------------------------------------------
(* Construction.                                                           *)

ImageProcessors ==
    {NoneVal, [tag |-> "Processing"], [tag |-> "list", steps |-> <<[tag |-> "Processing"]>>]}
ClassNames == {NoneVal, [tag |-> "names", names |-> <<"c0", "c1">>]}

\* Pipeline.__init__, lines 49-51
ComposeIfList(image_processor) ==
    IF image_processor.tag = "list"
    THEN [tag |-> "ComposeProcessing", steps |-> image_processor.steps]
    ELSE image_processor

\* DetectionPipeline.__init__ (with Pipeline.__init__): no argument is validated.
Construct ==
    /\ pipeline.tag = "None"
    /\ \E device \in Devices, image_processor \in ImageProcessors, class_names \in ClassNames :
          /\ pipeline' = [tag             |-> "DetectionPipeline",
                          device          |-> device,
                          image_processor |-> ComposeIfList(image_processor),
                          post_prediction_callback |-> "one_per_image",
                          class_names     |-> class_names]
          /\ model' = [model EXCEPT !.device = device]
    /\ initial_mode' = model.training
    /\ UNCHANGED <<call, drv, scope_failed, overlapped>>

-----------------------------------------------------------------------------
(* predict, lines 103-124.                                                 *)

\* The batches a caller hands to predict directly: windows of the frames 1..MaxN.
Frames(n) == [i \in 1..n |-> i]
Batches == { SubSeq(Frames(MaxN), a, b) : a \in 1..MaxN, b \in 0..MaxN }

\* Begin without line 103: the model stays where it is
Begin_no_relocation(p, images, owner) ==
    /\ model' = model
    /\ call' = [call EXCEPT ![p] =
                  [IdleCall EXCEPT !.pc = IF images = <<>> THEN "eval_mode" ELSE "preprocess",
                                   !.owner = owner,
                                   !.images = images,
                                   !.images_at_call = images,
                                   !.grad_enabled = call[p].grad_enabled,
                                   !.trace = <<Ev("to", 0, p)>>]]

\* line 103 and the entry into the preprocessing loop; the "to" event records
\* the device the model was on when predict was called
Begin(p, images, owner) ==
    /\ model' = [model EXCEPT !.device = pipeline.device]
    /\ call' = [call EXCEPT ![p] =
                  [IdleCall EXCEPT !.pc = IF images = <<>> THEN "eval_mode" ELSE "preprocess",
                                   !.owner = owner,
                                   !.images = images,
                                   !.images_at_call = images,
                                   !.grad_enabled = call[p].grad_enabled,
                                   !.trace = <<Ev("to", 0, p)>>]]

\* The batches given to a direct predict call: any window of at most MaxB frames
\* from a single thread, the first frames when two threads call at once.
InputBatches ==
    IF Cardinality(DOMAIN call) = 1
    THEN {b \in Batches : Len(b) <= MaxB}
    ELSE {Frames(n) : n \in 0..MaxConcurrentBatch}

\* a predict call is in flight from its first line until it returns or raises
InFlight(q) == call[q].pc \notin {"idle", "returned", "raised"}

\* The owner of the model moves it to another device while no predict call is
\* in flight (line 103: "it might have been moved after init").
move_model ==
    /\ pipeline.tag # "None"
    /\ \A p \in DOMAIN call : ~InFlight(p)
    /\ \E device \in Devices \ {model.device} : model' = [model EXCEPT !.device = device]
    /\ UNCHANGED <<pipeline, call, drv, initial_mode, scope_failed, overlapped>>

predict(p) ==
    /\ pipeline.tag # "None"
    /\ drv.kind = "none"
    /\ call[p].pc = "idle"
    /\ \E images \in InputBatches : Begin(p, images, "caller")
    /\ overlapped' = (overlapped \/ \E q \in DOMAIN call \ {p} : InFlight(q))
    /\ UNCHANGED <<pipeline, drv, initial_mode, scope_failed>>

\* preprocess with line 110 inserting the metadata at the front
preprocess_metadata_prepend(p) ==
    LET c == call[p]
        i == Len(c.preprocessed_images) + 1
        image == image_copy([ref |-> i, data |-> c.images[i]])
        r == preprocess_image(image.data)
    IN  /\ c.pc = "preprocess"
        /\ IF pipeline.image_processor.tag = "None"
           THEN call' = [call EXCEPT ![p] = Raise(c, Error("preprocess", i, "AttributeError"))]
           ELSE \E ok \in BOOLEAN :
                  call' = [call EXCEPT ![p] =
                     IF ok
                     THEN [c EXCEPT !.images = InPlace(@, image),
                                    !.preprocessed_images = Append(@, r.image),
                                    !.processing_metadatas = <<r.metadata>> \o @,
                                    !.trace = Append(@, Ev("preprocess_image", i, p)),
                                    !.pc = IF i = Len(c.images) THEN "eval_mode" ELSE "preprocess"]
                     ELSE Raise([c EXCEPT !.trace = Append(@, Ev("preprocess_image", i, p))],
                                Error("preprocess", i, "raised by preprocess_image"))]
        /\ UNCHANGED <<pipeline, model, drv, initial_mode, scope_failed, overlapped>>

\* lines 107-110, one iteration
preprocess(p) ==
    LET c == call[p]
        i == Len(c.preprocessed_images) + 1
        image == image_copy([ref |-> i, data |-> c.images[i]])
        r == preprocess_image(image.data)
    IN  /\ c.pc = "preprocess"
        /\ IF pipeline.image_processor.tag = "None"
           THEN call' = [call EXCEPT ![p] = Raise(c, Error("preprocess", i, "AttributeError"))]
           ELSE \E ok \in BOOLEAN :
                  call' = [call EXCEPT ![p] =
                     IF ok
                     THEN [c EXCEPT !.images = InPlace(@, image),
                                    !.preprocessed_images = Append(@, r.image),
                                    !.processing_metadatas = Append(@, r.metadata),
                                    !.trace = Append(@, Ev("preprocess_image", i, p)),
                                    !.pc = IF i = Len(c.images) THEN "eval_mode" ELSE "preprocess"]
                     ELSE Raise([c EXCEPT !.trace = Append(@, Ev("preprocess_image", i, p))],
                                Error("preprocess", i, "raised by preprocess_image"))]
        /\ UNCHANGED <<pipeline, model, drv, initial_mode, scope_failed, overlapped>>

\* eval_mode, line 28: the mode of the shared model is read into the local
\* _starting_mode.  Nothing keeps other threads out between this read and the
\* write of line 29.
eval_mode_read(p) ==
    LET c == call[p]
    IN  /\ c.pc = "eval_mode"
        /\ call' = [call EXCEPT ![p] =
                      [c EXCEPT !.starting_mode = model.training,
                                !.pc = "eval_mode_set"]]
        /\ UNCHANGED <<pipeline, model, drv, initial_mode, scope_failed, overlapped>>

\* eval_mode_enter without line 29: only gradient tracking is switched off
eval_mode_enter_no_eval(p) ==
    LET c == call[p]
    IN  /\ c.pc = "eval_mode_set"
        /\ model' = model
        /\ call' = [call EXCEPT ![p] =
                      [c EXCEPT !.prev_grad = c.grad_enabled,
                                !.grad_enabled = FALSE,
                                !.pc = "forward"]]
        /\ UNCHANGED <<pipeline, drv, initial_mode, scope_failed, overlapped>>

\* eval_mode, lines 29-30: model.eval() on the shared model, then
\* torch.no_grad() for the calling thread
eval_mode_enter(p) ==
    LET c == call[p]
    IN  /\ c.pc = "eval_mode_set"
        /\ model' = [model EXCEPT !.training = FALSE]
        /\ call' = [call EXCEPT ![p] =
                      [c EXCEPT !.prev_grad = c.grad_enabled,
                                !.grad_enabled = FALSE,
                                !.pc = "forward"]]
        /\ UNCHANGED <<pipeline, drv, initial_mode, scope_failed, overlapped>>

\* lines 114-115
forward(p) ==
    LET c == call[p]
        torch_inputs == Tensor(c.preprocessed_images)
    IN  /\ c.pc = "forward"
        /\ \E ok \in BOOLEAN :
             /\ call' = [call EXCEPT ![p] =
                  IF ok
                  THEN [c EXCEPT !.torch_inputs_device = pipeline.device,
                                 !.model_output = ModelForward(torch_inputs),
                                 !.trace = Append(@, Ev("forward", 0, p)),
                                 !.pc = "decode"]
                  ELSE RaiseInScope([c EXCEPT !.torch_inputs_device = pipeline.device,
                                              !.trace = Append(@, Ev("forward", 0, p))],
                                    Error("forward", 0, "raised by model"))]
             /\ scope_failed' = (scope_failed \/ ~ok)
        /\ UNCHANGED <<pipeline, model, drv, initial_mode, overlapped>>

\* line 116: DetectionPipeline._decode_model_output, lines 174-190
_decode_model_output(p) ==
    LET c == call[p]
        model_input == Tensor(c.preprocessed_images)
        ev == Ev("_decode_model_output", 0, p)
    IN  /\ c.pc = "decode"
        /\ \/ /\ call' = [call EXCEPT ![p] =
                    RaiseInScope([c EXCEPT !.trace = Append(@, ev)],
                                 Error("decode", 0, "raised by post_prediction_callback"))]
              /\ scope_failed' = TRUE
           \/ \E post_nms_predictions \in CallbackOutputs(pipeline.post_prediction_callback,
                                                        c.model_output) :
                LET d == DecodeLoop(post_nms_predictions, model_input, 1, <<>>)
                    c1 == [c EXCEPT !.post_nms_predictions = post_nms_predictions,
                                    !.predictions = d.predictions,
                                    !.trace = Append(@, ev)]
                IN  /\ call' = [call EXCEPT ![p] =
                          IF d.ok THEN [c1 EXCEPT !.pc = "eval_mode_exit"]
                          ELSE RaiseInScope(c1, Error("decode", d.index, "AttributeError"))]
                    /\ scope_failed' = (scope_failed \/ ~d.ok)
        /\ UNCHANGED <<pipeline, model, drv, initial_mode, overlapped>>

\* eval_mode without line 32: the scope is left with the model still in eval mode
eval_mode_exit_keep_eval(p) ==
    LET c == call[p]
    IN  /\ c.pc = "eval_mode_exit"
        /\ model' = model
        /\ call' = [call EXCEPT ![p] =
                      [c EXCEPT !.grad_enabled = c.prev_grad,
                                !.pc = IF Min(Len(c.predictions), Len(c.processing_metadatas)) = 0
                                       THEN "instantiate" ELSE "postprocess"]]
        /\ UNCHANGED <<pipeline, drv, initial_mode, scope_failed, overlapped>>

\* eval_mode_exit with line 32 written as model.train(): the recorded mode is ignored
eval_mode_exit_train(p) ==
    LET c == call[p]
    IN  /\ c.pc = "eval_mode_exit"
        /\ model' = [model EXCEPT !.training = TRUE]
        /\ call' = [call EXCEPT ![p] =
                      [c EXCEPT !.grad_enabled = c.prev_grad,
                                !.pc = IF Min(Len(c.predictions), Len(c.processing_metadatas)) = 0
                                       THEN "instantiate" ELSE "postprocess"]]
        /\ UNCHANGED <<pipeline, drv, initial_mode, scope_failed, overlapped>>

\* eval_mode, line 32 (after torch.no_grad() has been left): leaving the scope normally
eval_mode_exit(p) ==
    LET c == call[p]
    IN  /\ c.pc = "eval_mode_exit"
        /\ model' = [model EXCEPT !.training = c.starting_mode]
        /\ call' = [call EXCEPT ![p] =
                      [c EXCEPT !.grad_enabled = c.prev_grad,
                                !.pc = IF Min(Len(c.predictions), Len(c.processing_metadatas)) = 0
                                       THEN "instantiate" ELSE "postprocess"]]
        /\ UNCHANGED <<pipeline, drv, initial_mode, scope_failed, overlapped>>

\* postprocess with line 122 inserting at the front instead of appending
postprocess_prepend(p) ==
    LET c == call[p]
        i == Len(c.postprocessed_predictions) + 1
        n == Min(Len(c.predictions), Len(c.processing_metadatas))
        ev == Ev("postprocess_predictions", i, p)
    IN  /\ c.pc = "postprocess"
        /\ \E ok \in BOOLEAN :
             call' = [call EXCEPT ![p] =
                IF ok
                THEN [c EXCEPT !.postprocessed_predictions =
                                   <<postprocess_predictions(c.predictions[i],
                                                             c.processing_metadatas[i])>> \o @,
                               !.trace = Append(@, ev),
                               !.pc = IF i = n THEN "instantiate" ELSE "postprocess"]
                ELSE Raise([c EXCEPT !.trace = Append(@, ev)],
                           Error("postprocess", i, "raised by postprocess_predictions"))]
        /\ UNCHANGED <<pipeline, model, drv, initial_mode, scope_failed, overlapped>>

\* postprocess with the loop body in a try/except that drops the failed prediction
\* and goes on
postprocess_skip_failed(p) ==
    LET c == call[p]
        i == Len(c.postprocessed_predictions) + 1
        n == Min(Len(c.predictions), Len(c.processing_metadatas))
        ev == Ev("postprocess_predictions", i, p)
    IN  /\ c.pc = "postprocess"
        /\ \E ok \in BOOLEAN :
             call' = [call EXCEPT ![p] =
                IF ok
                THEN [c EXCEPT !.postprocessed_predictions =
                                   Append(@, postprocess_predictions(c.predictions[i],
                                                                     c.processing_metadatas[i])),
                               !.trace = Append(@, ev),
                               !.pc = IF i = n THEN "instantiate" ELSE "postprocess"]
                ELSE [c EXCEPT !.err = Error("postprocess", i, "raised by postprocess_predictions"),
                               !.trace = Append(@, ev),
                               !.pc = "instantiate"]]
        /\ UNCHANGED <<pipeline, model, drv, initial_mode, scope_failed, overlapped>>

\* lines 120-122, one iteration over zip(predictions, processing_metadatas)
postprocess(p) ==
    LET c == call[p]
        i == Len(c.postprocessed_predictions) + 1
        n == Min(Len(c.predictions), Len(c.processing_metadatas))
        ev == Ev("postprocess_predictions", i, p)
    IN  /\ c.pc = "postprocess"
        /\ \E ok \in BOOLEAN :
             call' = [call EXCEPT ![p] =
                IF ok
                THEN [c EXCEPT !.postprocessed_predictions =
                                   Append(@, postprocess_predictions(c.predictions[i],
                                                                     c.processing_metadatas[i])),
                               !.trace = Append(@, ev),
                               !.pc = IF i = n THEN "instantiate" ELSE "postprocess"]
                ELSE Raise([c EXCEPT !.trace = Append(@, ev)],
                           Error("postprocess", i, "raised by postprocess_predictions"))]
        /\ UNCHANGED <<pipeline, model, drv, initial_mode, scope_failed, overlapped>>

\* line 124
instantiate(p) ==
    LET c == call[p]
    IN  /\ c.pc = "instantiate"
        /\ call' = [call EXCEPT ![p] =
                      [c EXCEPT !.result = _instantiate_results(c.images, c.postprocessed_predictions),
                                !.trace = Append(@, Ev("_instantiate_results", 0, p)),
                                !.pc = "returned"]]
        /\ UNCHANGED <<pipeline, model, drv, initial_mode, scope_failed, overlapped>>

\* the caller of a direct predict has its Results, or the exception
predict_done(p) ==
    LET c == call[p]
    IN  /\ c.owner = "caller"
        /\ c.pc \in {"returned", "raised"}
        /\ call' = [call EXCEPT ![p] = [IdleCall EXCEPT !.grad_enabled = c.grad_enabled]]
        /\ UNCHANGED <<pipeline, model, drv, initial_mode, scope_failed, overlapped>>

-----------------------------------------------------------------------------
(* batch_predict, lines 69-70, and predict_video, lines 80-90.  The        *)
(* generator runs on thread 1, between two requests of its consumer.      *)
(* History kept with it: chunks (the batches handed to predict), yielded   *)
(* (the Results the consumer has received), pulls (its requests so far).   *)

FrameRates == {24, 30}

\* Result.draw(): the frame rendered from one Result
draw(result) == [tag |-> "drawn", of |-> result]

\* batch_generator(images, batch_size): the next chunk, at most batch_size
\* images read from where the input stands; empty when the input is exhausted
batch_generator(images, read, batch_size) ==
    SubSeq(images, read + 1, Min(read + batch_size, Len(images)))

\* the generator is suspended at a yield and is resumed: one Result goes to the
\* consumer; predict_video's list comprehension draws it at once (line 82)
YieldFirst(d) ==
    [d EXCEPT !.gen = "suspended",
              !.pending = Tail(@),
              !.yielded = Append(@, Head(d.pending)),
              !.frames = IF d.kind = "predict_video" THEN Append(@, draw(Head(d.pending))) ELSE @]

\* the generator running with no predict in flight: the rest of `yield from`,
\* then the next turn of the for loop of line 69
Advance(d) ==
    LET batch_images == batch_generator(d.images, d.read, d.batch_size)
    IN  IF d.pending # <<>>
        THEN /\ drv' = YieldFirst(d)
             /\ call' = [call EXCEPT ![1] = [IdleCall EXCEPT !.grad_enabled = call[1].grad_enabled]]
             /\ UNCHANGED model
        ELSE IF batch_images = <<>>
        THEN /\ drv' = [d EXCEPT !.gen = "done", !.batch_images = <<>>]
             /\ call' = [call EXCEPT ![1] = [IdleCall EXCEPT !.grad_enabled = call[1].grad_enabled]]
             /\ UNCHANGED model
        ELSE /\ drv' = [d EXCEPT !.gen = "running",
                                 !.batch_images = batch_images,
                                 !.read = d.read + Len(batch_images),
                                 !.chunks = Append(@, batch_images)]
             /\ Begin(1, batch_images, "batch_predict")

-----------------------------------------------------------------------------
(* Paths: strings as sequences of characters, with posixpath's functions.  *)

PathChars == {"/", ".", "a"}

Paths(n) == UNION { [1..k -> PathChars] : k \in 0..n }

\* str.rfind(ch) + 1: the position of the last ch in path, 0 when there is none
RFind(path, ch) ==
    IF \E i \in 1..Len(path) : path[i] = ch
    THEN CHOOSE i \in 1..Len(path) : path[i] = ch /\ \A j \in (i + 1)..Len(path) : path[j] # ch
    ELSE 0

\* str.rstrip("/")
RECURSIVE RStrip(_)
RStrip(path) ==
    IF path # <<>> /\ path[Len(path)] = "/" THEN RStrip(SubSeq(path, 1, Len(path) - 1)) ELSE path

\* os.path.split: (head, tail) at the last slash; trailing slashes are taken
\* off head unless head is slashes only
os_path_split(path) ==
    LET i == RFind(path, "/")
        head == SubSeq(path, 1, i)
        tail == SubSeq(path, i + 1, Len(path))
    IN  [head |-> IF \E k \in 1..Len(head) : head[k] # "/" THEN RStrip(head) ELSE head,
         tail |-> tail]

\* os.path.splitext: (root, ext) at the last dot of the last component; dots
\* that lead the component start no extension
os_path_splitext(path) ==
    LET sepIndex == RFind(path, "/")
        dotIndex == RFind(path, ".")
    IN  IF dotIndex > sepIndex /\ \E k \in (sepIndex + 1)..(dotIndex - 1) : path[k] # "."
        THEN [root |-> SubSeq(path, 1, dotIndex - 1), ext |-> SubSeq(path, dotIndex, Len(path))]
        ELSE [root |-> path, ext |-> <<>>]

\* os.path.join(a, b)
os_path_join(a, b) ==
    IF b # <<>> /\ b[1] = "/" THEN b
    ELSE IF a = <<>> \/ a[Len(a)] = "/" THEN a \o b
    ELSE a \o <<"/">> \o b

\* self.model.__class__.__name__
ModelClassName == <<"M">>

\* lines 85-87 with the file name written as f"{name}{ext}"
derived_output_path_same_name(video_path) ==
    LET directory == os_path_split(video_path).head
        filename == os_path_split(video_path).tail
        name == os_path_splitext(filename).root
        ext == os_path_splitext(filename).ext
    IN  os_path_join(directory, name \o ext)

\* lines 85-87: the path beside the input, f"{name}_{class name}_{ext}"
derived_output_path(video_path) ==
    LET directory == os_path_split(video_path).head
        filename == os_path_split(video_path).tail
        name == os_path_splitext(filename).root
        ext == os_path_splitext(filename).ext
    IN  os_path_join(directory, name \o <<"_">> \o ModelClassName \o <<"_">> \o ext)

\* a path given for output_path
Given(path) == [tag |-> "path", chars |-> path]

\* The arguments of the predict_video calls that go through the whole pipeline
VideoPaths == {<<"/", "a", ".", "a">>}
OutputPaths == {NoneVal, Given(<<"a">>)}

IdleDriver ==
    [kind         |-> "none",
     images       |-> <<>>,
     batch_size   |-> 1,
     fps          |-> 0,
     video_path   |-> <<>>,
     output_path  |-> NoneVal,
     mode_before  |-> FALSE,
     gen          |-> "none",
     read         |-> 0,
     batch_images |-> <<>>,
     pending      |-> <<>>,
     yielded      |-> <<>>,
     chunks       |-> <<>>,
     pulls        |-> 0,
     frames       |-> <<>>,
     err          |-> NoneVal,
     saved        |-> NoneVal]

\* batch_predict written as an ordinary function: the first batch is read and
\* given to predict when batch_predict is called
batch_predict_eager ==
    /\ pipeline.tag # "None"
    /\ drv.kind = "none"
    /\ \A p \in DOMAIN call : call[p].pc = "idle"
    /\ \E n \in 0..MaxN, batch_size \in 1..MaxB :
         Advance([IdleDriver EXCEPT !.kind = "batch_predict", !.gen = "created",
                                    !.mode_before = model.training,
                                    !.images = Frames(n), !.batch_size = batch_size])
    /\ UNCHANGED <<pipeline, initial_mode, scope_failed, overlapped>>

\* batch_predict(images, batch_size) is called: a generator object, no code run yet
batch_predict ==
    /\ pipeline.tag # "None"
    /\ drv.kind = "none"
    /\ \A p \in DOMAIN call : call[p].pc = "idle"
    /\ \E n \in 0..MaxN, batch_size \in 1..MaxB :
         drv' = [IdleDriver EXCEPT !.kind = "batch_predict", !.gen = "created",
                                    !.mode_before = model.training,
                                   !.images = Frames(n), !.batch_size = batch_size]
    /\ UNCHANGED <<pipeline, model, call, initial_mode, scope_failed, overlapped>>

\* predict_video, lines 80-82: load_video, then the list comprehension over batch_predict
predict_video ==
    /\ pipeline.tag # "None"
    /\ drv.kind = "none"
    /\ \A p \in DOMAIN call : call[p].pc = "idle"
    /\ \E n \in 0..MaxN, fps \in FrameRates, batch_size \in 1..MaxB,
          video_path \in VideoPaths, output_path \in OutputPaths :
         drv' = [IdleDriver EXCEPT !.kind = "predict_video", !.gen = "created",
                                   !.video_path = video_path,
                                   !.output_path = output_path,
                                   !.mode_before = model.training,
                                   !.images = Frames(n), !.fps = fps,
                                   !.batch_size = batch_size]
    /\ UNCHANGED <<pipeline, model, call, initial_mode, scope_failed, overlapped>>

\* the consumer asks the generator for its next Result
next_result ==
    /\ drv.gen \in {"created", "suspended"}
    /\ Advance([drv EXCEPT !.pulls = @ + 1])
    /\ UNCHANGED <<pipeline, initial_mode, scope_failed, overlapped>>

\* line 70 written as `yield self.predict(batch_images).results[0]`
predict_returned_first_only ==
    /\ drv.gen = "running"
    /\ call[1].pc = "returned"
    /\ Advance([drv EXCEPT !.pending = SubSeq(call[1].result.results, 1, 1)])
    /\ UNCHANGED <<pipeline, initial_mode, scope_failed, overlapped>>

\* line 70: predict returned to the generator, which yields from its results
predict_returned ==
    /\ drv.gen = "running"
    /\ call[1].pc = "returned"
    /\ Advance([drv EXCEPT !.pending = call[1].result.results])
    /\ UNCHANGED <<pipeline, initial_mode, scope_failed, overlapped>>

\* line 70 inside a try/except that skips the failed batch
predict_raised_skip ==
    /\ drv.gen = "running"
    /\ call[1].pc = "raised"
    /\ Advance(drv)
    /\ UNCHANGED <<pipeline, initial_mode, scope_failed, overlapped>>

\* line 70: predict raised; the exception ends the generator and reaches the consumer
predict_raised ==
    /\ drv.gen = "running"
    /\ call[1].pc = "raised"
    /\ drv' = [drv EXCEPT !.gen = "failed", !.err = call[1].err]
    /\ call' = [call EXCEPT ![1] = [IdleCall EXCEPT !.grad_enabled = call[1].grad_enabled]]
    /\ UNCHANGED <<pipeline, model, initial_mode, scope_failed, overlapped>>

\* lines 82-89 with the write in a `finally`: what was rendered is written also
\* when a chunk failed
save_video_finally ==
    /\ drv.kind = "predict_video"
    /\ drv.gen \in {"done", "failed"}
    /\ drv.saved.tag = "None"
    /\ drv' = [drv EXCEPT !.saved = [tag         |-> "video",
                                     output_path |-> IF drv.output_path.tag = "None"
                                                     THEN derived_output_path(drv.video_path)
                                                     ELSE drv.output_path.chars,
                                     frames      |-> drv.frames,
                                     fps         |-> drv.fps]]
    /\ UNCHANGED <<pipeline, model, call, initial_mode, scope_failed, overlapped>>

\* save_video called without the loaded frame rate
save_video_default_fps ==
    /\ drv.kind = "predict_video"
    /\ drv.gen = "done"
    /\ drv.saved.tag = "None"
    /\ drv' = [drv EXCEPT !.saved = [tag         |-> "video",
                                     output_path |-> IF drv.output_path.tag = "None"
                                                     THEN derived_output_path(drv.video_path)
                                                     ELSE drv.output_path.chars,
                                     frames      |-> drv.frames,
                                     fps         |-> 30]]
    /\ UNCHANGED <<pipeline, model, call, initial_mode, scope_failed, overlapped>>

\* predict_video, lines 84-89: every frame is drawn, the video is written
save_video ==
    /\ drv.kind = "predict_video"
    /\ drv.gen = "done"
    /\ drv.saved.tag = "None"
    /\ drv' = [drv EXCEPT !.saved = [tag         |-> "video",
                                     output_path |-> IF drv.output_path.tag = "None"
                                                     THEN derived_output_path(drv.video_path)
                                                     ELSE drv.output_path.chars,
                                     frames      |-> drv.frames,
                                     fps         |-> drv.fps]]
    /\ UNCHANGED <<pipeline, model, call, initial_mode, scope_failed, overlapped>>

\* the caller is through with the generator (exhausted, failed or abandoned
\* between two results), or predict_video has returned or raised
finish ==
    /\ \/ /\ drv.kind = "batch_predict"
          /\ drv.gen \in {"created", "suspended", "done", "failed"}
       \/ /\ drv.kind = "predict_video"
          /\ drv.gen = "failed" \/ drv.saved.tag # "None"
    /\ drv' = IdleDriver
    /\ UNCHANGED <<pipeline, model, call, initial_mode, scope_failed, overlapped>>

-----------------------------------------------------------------------------

Init ==
    /\ pipeline = NoneVal
    /\ model \in [training : BOOLEAN, device : {"cpu"}]
    /\ call = [p \in Threads |-> IdleCall]
    /\ drv = IdleDriver
    /\ initial_mode = model.training
    /\ scope_failed = FALSE
    /\ overlapped = FALSE

Next ==
    \/ Construct
    \/ move_model
    \/ batch_predict
    \/ predict_video
    \/ next_result
    \/ predict_returned
    \/ predict_raised
    \/ save_video
    \/ finish
    \/ \E p \in DOMAIN call :
         \/ predict(p)
         \/ preprocess(p)
         \/ eval_mode_read(p)
         \/ eval_mode_enter(p)
         \/ forward(p)
         \/ _decode_model_output(p)
         \/ eval_mode_exit(p)
         \/ postprocess(p)
         \/ instantiate(p)
         \/ predict_done(p)

Spec == Init /\ [][Next]_vars

-----------------------------------------------------------------------------
(* Two threads calling predict on one pipeline, with nothing that keeps    *)
(* their calls apart.  model.training is shared; the grad mode of          *)
(* torch.no_grad() is per thread.                                          *)

ConcurrentThreads == {1, 2}

InitConcurrent ==
    /\ pipeline = [tag             |-> "DetectionPipeline",
                   device          |-> "cpu",
                   image_processor |-> [tag |-> "Processing"],
                   post_prediction_callback |-> "one_per_image",
                   class_names     |-> [tag |-> "names", names |-> <<"c0", "c1">>]]
    /\ model \in [training : BOOLEAN, device : {"cpu"}]
    /\ call = [p \in ConcurrentThreads |-> IdleCall]
    /\ drv = IdleDriver
    /\ initial_mode = model.training
    /\ scope_failed = FALSE
    /\ overlapped = FALSE

NextConcurrent ==
    \E p \in DOMAIN call :
        \/ predict(p)
        \/ preprocess(p)
        \/ eval_mode_read(p)
        \/ eval_mode_enter(p)
        \/ forward(p)
        \/ _decode_model_output(p)
        \/ eval_mode_exit(p)
        \/ postprocess(p)
        \/ instantiate(p)
        \/ predict_done(p)

SpecConcurrent == InitConcurrent /\ [][NextConcurrent]_vars

-----------------------------------------------------------------------------
(* predict on a pipeline whose post prediction callback does not keep to   *)
(* one entry per image.                                                    *)

InitLoose ==
    /\ pipeline = [tag             |-> "DetectionPipeline",
                   device          |-> "cpu",
                   image_processor |-> [tag |-> "Processing"],
                   post_prediction_callback |-> "any_length",
                   class_names     |-> [tag |-> "names", names |-> <<"c0", "c1">>]]
    /\ model \in [training : BOOLEAN, device : {"cpu"}]
    /\ call = [p \in Threads |-> IdleCall]
    /\ drv = IdleDriver
    /\ initial_mode = model.training
    /\ scope_failed = FALSE
    /\ overlapped = FALSE

NextLoose ==
    \E p \in DOMAIN call :
        \/ predict(p)
        \/ preprocess(p)
        \/ eval_mode_read(p)
        \/ eval_mode_enter(p)
        \/ forward(p)
        \/ _decode_model_output(p)
        \/ eval_mode_exit(p)
        \/ postprocess(p)
        \/ instantiate(p)
        \/ predict_done(p)

SpecLoose == InitLoose /\ [][NextLoose]_vars

-----------------------------------------------------------------------------
(* predict_video at line 84, for every video path and output_path: the     *)
(* video had no frame, so the comprehension of line 82 is through without  *)
(* a predict call.                                                         *)

InitPaths ==
    /\ pipeline = [tag             |-> "DetectionPipeline",
                   device          |-> "cpu",
                   image_processor |-> [tag |-> "Processing"],
                   post_prediction_callback |-> "one_per_image",
                   class_names     |-> [tag |-> "names", names |-> <<"c0", "c1">>]]
    /\ model \in [training : BOOLEAN, device : {"cpu"}]
    /\ call = [p \in Threads |-> IdleCall]
    /\ \E video_path \in Paths(MaxPathLen),
          output_path \in {NoneVal} \cup {Given(path) : path \in Paths(1)},
          fps \in FrameRates :
          drv = [IdleDriver EXCEPT !.kind = "predict_video", !.gen = "done",
                                   !.video_path = video_path,
                                   !.output_path = output_path,
                                   !.fps = fps,
                                   !.mode_before = model.training,
                                   !.pulls = 1]
    /\ initial_mode = model.training
    /\ scope_failed = FALSE
    /\ overlapped = FALSE

NextPaths == save_video \/ finish

SpecPaths == InitPaths /\ [][NextPaths]_vars

-----------------------------------------------------------------------------
(* Properties.                                                             *)

InScopeStages == {"forward", "decode"}

\* C1: when the forward pass or the decode raises inside the eval_mode scope,
\* the model's training flag is back at its value on scope entry when the
\* failure reaches the caller of predict.
C1_ModeRestoredWhenScopeRaises ==
    \A p \in DOMAIN call :
        (call[p].pc = "raised" /\ call[p].err.stage \in InScopeStages)
            => model.training = call[p].starting_mode

\* C2: an image for which the post prediction callback returned None gets a
\* DetectionPrediction with zero rows (boxes 0x4, no confidences, no labels)
\* from _decode_model_output, and predict does not fail because of it.
C2_NoneDecodesToZeroRows ==
    \A p \in DOMAIN call :
        \A i \in 1..Len(call[p].post_nms_predictions) :
            call[p].post_nms_predictions[i].tag = "None"
                => /\ call[p].pc # "raised"
                   /\ Len(call[p].predictions) >= i
                   /\ call[p].predictions[i].bboxes = [rows |-> 0, cols |-> 4]
                   /\ call[p].predictions[i].confidence = 0
                   /\ call[p].predictions[i].labels = 0

OutsideScope == {"idle", "preprocess", "eval_mode", "eval_mode_set", "postprocess", "instantiate",
                 "returned", "raised"}

\* C3: as long as every predict call so far has returned or failed outside the
\* eval_mode scope (in particular because postprocessing raised), the model's
\* training flag outside the scope equals its value before the first call, and
\* every postprocess_predictions call found it already restored.
C3_ModeRestoredAcrossCalls ==
    ~scope_failed =>
        \A p \in DOMAIN call :
            /\ call[p].pc \in OutsideScope => model.training = initial_mode
            /\ \A k \in 1..Len(call[p].trace) :
                   call[p].trace[k].ev = "postprocess_predictions"
                       => call[p].trace[k].training = initial_mode

\* C3 witness: a generator's second predict call, the first having returned,
\* failed because postprocessing raised, on a model that started in training mode.
C3_Witness ==
    /\ initial_mode = TRUE
    /\ ~scope_failed
    /\ Len(drv.chunks) >= 2
    /\ call[1].pc = "raised"
    /\ call[1].err.stage = "postprocess"
    /\ model.training = TRUE

\* C4: a predict call on n >= 1 images that returns has given _instantiate_results
\* the n images and n postprocessed predictions, the i-th being the postprocessing,
\* with image i's metadata, of the prediction decoded for image i.
C4_OnePredictionPerImageInOrder ==
    \A p \in DOMAIN call :
        (call[p].pc = "returned" /\ Len(call[p].images) >= 1) =>
            LET r == call[p].result
            IN  /\ r.images = call[p].images
                /\ Len(r.predictions) = Len(call[p].images)
                /\ \A i \in 1..Len(call[p].images) :
                      /\ r.predictions[i].prediction.of = call[p].images[i]
                      /\ r.predictions[i].metadata.of = call[p].images[i]

\* C4 witness: a predict call on two images has returned
C4_Witness ==
    /\ call[1].pc = "returned"
    /\ Len(call[1].images) = 2
    /\ call[1].result.predictions[2].prediction.of = call[1].images[2]

Ceil(n, b) == (n + b - 1) \div b

\* the Results of images 1..n of the stream, in order
InStreamOrder(results, images, n) ==
    /\ Len(results) = n
    /\ \A i \in 1..n :
          /\ results[i].image = images[i]
          /\ results[i].prediction.prediction.of = images[i]
          /\ results[i].prediction.metadata.of = images[i]

\* C5: a batch_predict stream of N images consumed to its end has yielded N
\* Results in the stream's order, from ceil(N/B) predict calls on consecutive
\* chunks of B images, the last one alone possibly shorter.
C5_BatchPredictYieldsAllInOrder ==
    drv.gen = "done" =>
        LET N == Len(drv.images)
            B == drv.batch_size
        IN  /\ InStreamOrder(drv.yielded, drv.images, N)
            /\ Len(drv.chunks) = Ceil(N, B)
            /\ \A k \in 1..Len(drv.chunks) :
                  drv.chunks[k] = SubSeq(drv.images, (k - 1) * B + 1, Min(k * B, N))

\* C5 witness: N = 3, B = 2 consumed to the end: chunks of 2 and 1 images
C5_Witness ==
    /\ drv.kind = "batch_predict"
    /\ drv.gen = "done"
    /\ Len(drv.images) = 3
    /\ drv.batch_size = 2
    /\ Len(drv.chunks) = 2
    /\ Len(drv.chunks[2]) = 1
    /\ Len(drv.yielded) = 3

\* C6: batch_predict is pull-driven.  Before the first request nothing is read
\* and predict is not called; a chunk is read and predicted only once every
\* result of the chunks before it has been pulled; never more than one chunk of
\* images and of results is held.
C6_PullDriven ==
    drv.kind # "none" =>
        /\ drv.pulls = 0 => (drv.read = 0 /\ drv.chunks = <<>> /\ call[1].pc = "idle")
        /\ drv.chunks # <<>> =>
              /\ drv.read - Len(drv.chunks[Len(drv.chunks)]) <= Len(drv.yielded)
              /\ drv.batch_images = drv.chunks[Len(drv.chunks)] \/ drv.gen = "done"
        /\ Len(drv.batch_images) <= drv.batch_size
        /\ Len(drv.pending) <= drv.batch_size
        /\ Len(drv.yielded) + Len(drv.pending) <= drv.read
        /\ Len(drv.yielded) <= drv.pulls
        /\ drv.gen = "running" => call[1].images = drv.batch_images

\* C6 witness: suspended inside the first chunk, results pending, input left unread
C6_Witness ==
    /\ drv.kind = "batch_predict"
    /\ drv.gen = "suspended"
    /\ drv.pending # <<>>
    /\ drv.read < Len(drv.images)
    /\ Len(drv.chunks) = 1

\* C7: when predict fails on chunk k, the consumer gets the failure on the pull
\* of chunk k's first result, having received exactly the results of chunks
\* 1..k-1 in order; nothing is yielded and no chunk is processed afterwards.
C7_AtFailure ==
    drv.gen = "failed" =>
        LET k == Len(drv.chunks)
            before == drv.read - Len(drv.chunks[k])
        IN  /\ k >= 1
            /\ before = (k - 1) * drv.batch_size
            /\ InStreamOrder(drv.yielded, drv.images, before)
            /\ drv.pulls = before + 1
            /\ drv.pending = <<>>
            /\ drv.err.tag = "Error"
            /\ call[1].pc = "idle"

\* C7, the step that delivers the failure: it ends the generator with predict's
\* exception and yields nothing
C7_FailureReachesConsumer ==
    (drv.gen = "running" /\ call[1].pc = "raised")
        => (drv' = drv \/ (drv'.gen = "failed" /\ drv'.err = call[1].err
                            /\ drv'.yielded = drv.yielded /\ drv'.chunks = drv.chunks))

\* C7, after the failure: the generator stays as it is until it is dropped
C7_NothingAfterFailure ==
    drv.gen = "failed" => ((drv' = drv \/ drv' = IdleDriver) /\ call' = call)

\* C7: a predict failure on chunk k reaches the consumer on the pull of that
\* chunk's first result, after the results of chunks 1..k-1 and before any other
C7_FailedChunkEndsStream ==
    /\ []C7_AtFailure
    /\ [][C7_FailureReachesConsumer /\ C7_NothingAfterFailure]_vars

\* C7 witness: B = 1, the second of three chunks failed after one result was yielded
C7_Witness ==
    /\ drv.kind = "batch_predict"
    /\ drv.gen = "failed"
    /\ Len(drv.chunks) = 2
    /\ drv.batch_size = 1
    /\ Len(drv.images) = 3
    /\ Len(drv.yielded) = 1

\* the stage of predict a recorded collaborator call belongs to
StageOf(ev) ==
    CASE ev = "to" -> 0
      [] ev = "preprocess_image" -> 1
      [] ev = "forward" -> 2
      [] ev = "_decode_model_output" -> 3
      [] ev = "postprocess_predictions" -> 4
      [] ev = "_instantiate_results" -> 5

StageOfError(stage) ==
    CASE stage = "preprocess" -> 1
      [] stage = "forward" -> 2
      [] stage = "decode" -> 3
      [] stage = "postprocess" -> 4

\* C8: once a stage of predict has raised, the call has ended with that failure:
\* no collaborator of a later stage was called (no forward after a failed
\* preprocessing), no call was repeated, _instantiate_results was not called
\* and there is no Results object; and the call stays failed.
C8_AtFailure ==
    \A p \in DOMAIN call :
        call[p].err.tag = "Error" =>
            LET c == call[p]
            IN  /\ c.pc = "raised"
                /\ c.result.tag = "None"
                /\ \A k \in 1..Len(c.trace) :
                      /\ StageOf(c.trace[k].ev) <= StageOfError(c.err.stage)
                      /\ \A j \in 1..Len(c.trace) :
                            (c.trace[j].ev = c.trace[k].ev /\ c.trace[j].i = c.trace[k].i)
                                => j = k
                /\ c.err.stage = "preprocess" => Len(c.model_output) = 0

\* C8, no retry: a failed call does nothing more until its caller has the exception
C8_StaysFailed ==
    \A p \in DOMAIN call :
        call[p].pc = "raised" =>
            \/ call'[p] = call[p]
            \/ call'[p].pc = "idle" /\ model' = model

\* C8: predict is fail-fast and all-or-nothing
C8_FailFast == []C8_AtFailure /\ [][C8_StaysFailed]_vars

\* C8 witness: preprocessing of the second image raised, after the first succeeded
C8_Witness ==
    /\ call[1].pc = "raised"
    /\ call[1].err.stage = "preprocess"
    /\ call[1].err.i = 2
    /\ Len(call[1].preprocessed_images) = 1
    /\ pipeline.image_processor.tag # "None"

\* C9: save_video receives one drawn frame per frame of the video, frame i
\* drawn from the Result of input frame i, and the frame rate load_video gave.
C9_VideoFramesAndRate ==
    drv.saved.tag # "None" =>
        LET N == Len(drv.images)
        IN  /\ Len(drv.saved.frames) = N
            /\ \A i \in 1..N :
                  /\ drv.saved.frames[i] = draw(drv.yielded[i])
                  /\ drv.yielded[i].image = drv.images[i]
                  /\ drv.yielded[i].prediction.prediction.of = drv.images[i]
            /\ drv.saved.fps = drv.fps

\* C9 witness: a video of 3 frames at 24 fps, batch_size 2, has been saved
C9_Witness ==
    /\ drv.saved.tag # "None"
    /\ Len(drv.images) = 3
    /\ drv.batch_size = 2
    /\ drv.fps = 24
    /\ Len(drv.saved.frames) = 3
    /\ drv.saved.fps = 24

\* C10: a constructed pipeline has class names and an image processor, and no
\* predict call fails because the image processor is missing.
C10_ConfigurationCheckedAtConstruction ==
    /\ pipeline.tag # "None" =>
          /\ pipeline.class_names.tag # "None"
          /\ pipeline.image_processor.tag # "None"
    /\ \A p \in DOMAIN call :
          call[p].pc = "raised" => call[p].err.kind # "AttributeError"
                                    \/ call[p].err.stage # "preprocess"

\* C11: with at most one predict call in flight at a time, no forward pass runs
\* with the model in training mode, and between calls the model's mode is the
\* one it had before them.
C11_OneInFlightKeepsMode ==
    ~overlapped =>
        /\ \A p \in DOMAIN call : \A k \in 1..Len(call[p].trace) :
              call[p].trace[k].ev = "forward" => ~call[p].trace[k].training
        /\ (\A p \in DOMAIN call : ~InFlight(p)) => model.training = initial_mode

\* C11, the race: two interleaved calls on a model in training mode have both
\* returned; one of them ran its forward pass with the model in training mode
\* and the model is left in evaluation mode.
C11_Race ==
    /\ overlapped
    /\ ~scope_failed
    /\ initial_mode = TRUE
    /\ \A p \in DOMAIN call : call[p].pc = "returned"
    /\ \E p \in DOMAIN call : \E k \in 1..Len(call[p].trace) :
          call[p].trace[k].ev = "forward" /\ call[p].trace[k].training
    /\ model.training = FALSE

InsideScope == {"forward", "decode", "eval_mode_exit"}

\* C12: with one predict call in flight, the forward pass and
\* _decode_model_output run with the model in evaluation mode and gradient
\* tracking off, whatever the mode before the call; outside the scope, after a
\* normal or a failing exit, gradient tracking is on again.
C12_ScopeIsEvalAndNoGrad ==
    \A p \in DOMAIN call :
        /\ \A k \in 1..Len(call[p].trace) :
              call[p].trace[k].ev \in {"forward", "_decode_model_output"}
                  => ~call[p].trace[k].training /\ ~call[p].trace[k].grad
        /\ call[p].pc \in InsideScope => ~model.training /\ ~call[p].grad_enabled
        /\ call[p].pc \in OutsideScope => call[p].grad_enabled

\* C12 witness: on a model that was in training mode, the forward pass ran and
\* the decode raised; gradient tracking is on again
C12_Witness ==
    /\ call[1].pc = "raised"
    /\ call[1].err.stage = "decode"
    /\ call[1].starting_mode = TRUE
    /\ call[1].grad_enabled
    /\ Len(call[1].trace) >= 2
    /\ call[1].trace[Len(call[1].trace)].ev = "_decode_model_output"
    /\ ~call[1].trace[Len(call[1].trace)].training

\* C13: within a predict call the metadata kept at index i is the one
\* preprocessing returned for image i, postprocessing of prediction i is given
\* prediction i and that metadata, and a call starts with no image and no
\* metadata of an earlier call.
C13_MetadataFollowsItsImage ==
    \A p \in DOMAIN call :
        LET c == call[p]
        IN  /\ Len(c.processing_metadatas) = Len(c.preprocessed_images)
            /\ Len(c.processing_metadatas) <= Len(c.images)
            /\ \A i \in 1..Len(c.processing_metadatas) :
                  /\ c.processing_metadatas[i] = preprocess_image(c.images[i]).metadata
                  /\ c.preprocessed_images[i] = preprocess_image(c.images[i]).image
            /\ \A i \in 1..Len(c.postprocessed_predictions) :
                  c.postprocessed_predictions[i] =
                      postprocess_predictions(c.predictions[i],
                                              preprocess_image(c.images[i]).metadata)
            /\ Len(c.trace) = 1 =>
                  c.processing_metadatas = <<>> /\ c.preprocessed_images = <<>>

\* C13 witness: the generator's second predict call, on image 3 alone after
\* images 1 and 2, has postprocessed its prediction with image 3's metadata
C13_Witness ==
    /\ Len(drv.chunks) = 2
    /\ call[1].images = <<3>>
    /\ call[1].pc = "instantiate"
    /\ call[1].postprocessed_predictions[1].metadata = preprocess_image(3).metadata

EventsOf(c, ev) == {k \in 1..Len(c.trace) : c.trace[k].ev = ev}

\* C14: the stages of a predict call run in the order relocation, preprocessing
\* of every image, forward, decode, postprocessing of every prediction,
\* _instantiate_results; and from its first line on the model is on the
\* pipeline's device, so forward and decode run there wherever the model was
\* when predict was called.
C14_StagesInOrderOnDevice ==
    \A p \in DOMAIN call :
        LET c == call[p]
            n == Len(c.trace)
        IN  c.pc # "idle" =>
              /\ n >= 1 /\ c.trace[1].ev = "to"
              /\ \A k \in 1..(n - 1) :
                    /\ StageOf(c.trace[k].ev) <= StageOf(c.trace[k + 1].ev)
                    /\ c.trace[k + 1].ev = c.trace[k].ev => c.trace[k + 1].i = c.trace[k].i + 1
                    /\ c.trace[k + 1].ev # c.trace[k].ev => c.trace[k + 1].i \in {0, 1}
              /\ EventsOf(c, "forward") # {} =>
                    Cardinality(EventsOf(c, "preprocess_image")) = Len(c.images)
              /\ EventsOf(c, "_decode_model_output") # {} => EventsOf(c, "forward") # {}
              /\ EventsOf(c, "postprocess_predictions") # {} =>
                    EventsOf(c, "_decode_model_output") # {}
              /\ EventsOf(c, "_instantiate_results") # {} =>
                    /\ EventsOf(c, "_decode_model_output") # {}
                    /\ Cardinality(EventsOf(c, "postprocess_predictions")) = Len(c.predictions)
              /\ \A k \in 2..n : c.trace[k].device = pipeline.device
              /\ EventsOf(c, "forward") # {} => c.torch_inputs_device = pipeline.device
              /\ InFlight(p) => model.device = pipeline.device

\* C14 witness: the model was moved off the pipeline's device between the
\* generator's first and second predict call; the second call has returned
C14_Witness ==
    /\ Len(drv.chunks) = 2
    /\ call[1].pc = "returned"
    /\ call[1].trace[1].device # pipeline.device
    /\ \E k \in EventsOf(call[1], "forward") : call[1].trace[k].device = pipeline.device
    /\ call[1].torch_inputs_device = pipeline.device

\* C15: predict hands preprocess_image a copy of each image, never the caller's
\* object: the caller's images are as they were when predict was called, at
\* every point of the call, also when preprocess_image works in place; the
\* Results hold the original images in input order.
C15_CallerImagesUntouched ==
    \A p \in DOMAIN call :
        LET c == call[p]
        IN  /\ c.images = c.images_at_call
            /\ \A i \in 1..Len(c.images) : c.images[i] # 0
            /\ c.pc = "returned" =>
                  /\ c.result.images = c.images_at_call
                  /\ \A i \in 1..Len(c.result.results) :
                        c.result.results[i].image = c.images_at_call[i]

\* C15 witness: a returned call on two images, both preprocessed in place
C15_Witness ==
    /\ call[1].pc = "returned"
    /\ call[1].images_at_call = <<2, 3>>
    /\ Cardinality(EventsOf(call[1], "preprocess_image")) = 2
    /\ Len(call[1].result.results) = 2
    /\ call[1].result.images = <<2, 3>>

C16_SavedOnlyWhenComplete ==
    /\ drv.saved.tag # "None" =>
          /\ drv.kind = "predict_video"
          /\ drv.gen = "done"
          /\ drv.read = Len(drv.images)
          /\ Len(drv.saved.frames) = Len(drv.images)
          /\ Len(drv.chunks) = Ceil(Len(drv.images), drv.batch_size)
          /\ ~InFlight(1)
    /\ drv.gen = "failed" => drv.saved.tag = "None"

\* C16: predict_video calls save_video once, after every frame has been
\* predicted and rendered, and then returns; when predict fails on a chunk,
\* save_video is not called and nothing is written, the frames rendered from
\* earlier chunks included.
C16_SaveVideoOnceAfterAllFrames ==
    /\ []C16_SavedOnlyWhenComplete
    /\ [][/\ drv.saved.tag # "None" => drv' \in {drv, IdleDriver}
          /\ drv.gen = "failed" => drv' \in {drv, IdleDriver}
          /\ (drv.kind = "predict_video" /\ drv' = IdleDriver) =>
                (drv.gen = "failed") # (drv.saved.tag # "None")]_vars

\* C16 witness: predict failed on the second chunk of a video; a frame of the
\* first chunk had been rendered, and nothing is written
C16_Witness ==
    /\ drv.kind = "predict_video"
    /\ drv.gen = "failed"
    /\ Len(drv.chunks) = 2
    /\ Len(drv.frames) >= 1
    /\ drv.saved.tag = "None"

C17_AtSuspension ==
    drv.gen \in {"created", "suspended"} =>
        /\ model.training = drv.mode_before
        /\ call[1].pc = "idle"
        /\ call[1].grad_enabled

\* C17: whenever the batch_predict generator is suspended (created and not yet
\* started, or a Result yielded and the next not yet requested) the model's
\* training flag is what it was when batch_predict was called and no eval_mode
\* scope is open; abandoning the stream there leaves the model as it is, in
\* that mode.
C17_OriginalModeAtEveryYield ==
    /\ []C17_AtSuspension
    /\ [][(drv.gen \in {"created", "suspended"} /\ drv' = IdleDriver) =>
             /\ model' = model
             /\ model'.training = drv.mode_before
             /\ \A p \in DOMAIN call : ~InFlight(p)']_vars

\* C17 witness: a stream over a model in training mode, suspended in the middle
\* of the first chunk's results with another chunk still to come
C17_Witness ==
    /\ drv.kind = "batch_predict"
    /\ drv.gen = "suspended"
    /\ drv.mode_before
    /\ model.training
    /\ Len(drv.yielded) = 1
    /\ drv.pending # <<>>
    /\ drv.read < Len(drv.images)

AfterDecode == {"eval_mode_exit", "postprocess", "instantiate", "returned"}

\* C18: predict does not compare the number of decoded predictions with the
\* number of images.  When the decode step returns k <= n predictions for n
\* images, postprocess_predictions is called for the indices 1..k only, no
\* failure comes from the missing entries, and _instantiate_results gets all n
\* images with the k postprocessed predictions: images k+1..n have none.
C18_ShortDecodeIsTruncatedSilently ==
    \A p \in DOMAIN call :
        LET c == call[p]
            n == Len(c.images)
            k == Len(c.predictions)
            post == EventsOf(c, "postprocess_predictions")
        IN  /\ c.pc \in AfterDecode =>
                 /\ k = Len(c.post_nms_predictions) /\ k <= n
                 /\ Cardinality(post) <= k
                 /\ \A e \in post : c.trace[e].i \in 1..k
                 /\ \A i \in 1..Len(c.postprocessed_predictions) :
                       c.postprocessed_predictions[i] =
                          postprocess_predictions(c.predictions[i], c.processing_metadatas[i])
            /\ c.pc \in {"instantiate", "returned"} =>
                 /\ Cardinality(post) = k
                 /\ Len(c.postprocessed_predictions) = k
            /\ c.pc = "returned" =>
                 /\ c.result.images = c.images_at_call
                 /\ Len(c.result.images) = n
                 /\ c.result.predictions = c.postprocessed_predictions
                 /\ Len(c.result.predictions) = k
            /\ (c.pc = "raised" /\ c.err.stage = "postprocess") =>
                 /\ c.err.kind = "raised by postprocess_predictions"
                 /\ c.err.i <= Len(c.predictions)

\* C18 witness: predict has returned for two images of which the decode step
\* gave a prediction for the first only
C18_Witness ==
    /\ pipeline.post_prediction_callback = "any_length"
    /\ call[1].pc = "returned"
    /\ Len(call[1].images) = 2
    /\ Len(call[1].predictions) = 1
    /\ Cardinality(EventsOf(call[1], "postprocess_predictions")) = 1
    /\ Len(call[1].result.images) = 2
    /\ Len(call[1].result.predictions) = 1

\* C19: predict_video gives save_video the output_path it was given, unchanged;
\* without one, the path it derives is in the directory of the input video,
\* has the input's extension, and differs from the input path.
C19_OutputPathBesideInput ==
    drv.saved.tag # "None" =>
        IF drv.output_path.tag # "None"
        THEN drv.saved.output_path = drv.output_path.chars
        ELSE /\ os_path_split(drv.saved.output_path).head = os_path_split(drv.video_path).head
             /\ os_path_splitext(drv.saved.output_path).ext = os_path_splitext(drv.video_path).ext
             /\ drv.saved.output_path # drv.video_path

\* C19 witness: the video /a.a saved with no output_path given, as /a_M_.a
C19_Witness ==
    /\ drv.video_path = <<"/", "a", ".", "a">>
    /\ drv.output_path.tag = "None"
    /\ drv.saved.tag = "video"
    /\ drv.saved.output_path = <<"/", "a", "_", "M", "_", ".", "a">>

====
